---- MODULE Spec2Model ----
(***************************************************************************)
(* Model of the moleculer-ws-client packet protocol engine: the Client     *)
(* class of src/index.ts (current version, src/unnamed/part_000 lines      *)
(* 9-513) with its ack correlation, message routing and reconnect logic.   *)
(***************************************************************************)
EXTENDS Integers, Sequences, FiniteSets, TLC

(***************************************************************************)
(* Bounds of the model.                                                    *)
(***************************************************************************)
\* events the outside chooses over one run: calls of the public operations,
\* inbound messages and transport closes (a transport opens at most once
\* and a timer fires at most once, so those need no budget)
MaxOps == 3
\* largest configured reconnect.retries
MaxRetries == 1
\* longest string inside a packet that goes through the codec
MaxLen == 2

\* no run makes more correlated calls, holds more packets inside the codec
\* or replaces more transports than it has outside events
MaxCalls == MaxOps
MaxInFlight == MaxOps
MaxSetups == MaxOps + 1

(***************************************************************************)
(* Program constants.                                                      *)
(***************************************************************************)
\* the custom close code of disconnect(), tested by disconnectHandler
NormalClosure == 2001

\* close codes the transport can report: the custom one and an abnormal drop
CloseCodes == {NormalClosure, 1006}

(***************************************************************************)
(* JavaScript values that travel as packet data and promise results.       *)
(***************************************************************************)
Null == [t |-> "null"]
Undefined == [t |-> "undefined"]
Str(s) == [t |-> "str", v |-> s]
Obj(r) == [t |-> "obj", v |-> r]
EmptyObj == Obj(<<>>)

\* data of inbound RESPONSE and EVENT packets
DataValues == {Null, Obj([name |-> "a"]), Obj([error |-> "E1"])}

\* data.hasOwnProperty(k); throws on null and undefined (see Throws)
hasOwnProperty(data, k) == data.t = "obj" /\ k \in DOMAIN data.v

\* data[k] of an object that owns k
Get(data, k) == Str(data.v[k])

\* a property access on null or undefined raises a TypeError
Throws(data) == data.t \in {"null", "undefined"}

\* new Errors.ClientError(error): the constructor returns { error }
ClientError(error) == Obj([error |-> error.v])

\* new Errors.EncodeError(e) and new Errors.DecodeError(e)
EncodeError == Str("Unable to encode packet")
DecodeError == Str("Unable to decode packet")

\* the TypeError of a property access on null or undefined
TypeError == Str("TypeError")

\* new Errors.ResponseTimeout()
ResponseTimeout == Str("Server failed to respond within the alloted time.")

(***************************************************************************)
(* Event names of the Emitter.  `_ack_${id}` is the pair of its prefix and *)
(* the number; application names are one-element tuples.                   *)
(***************************************************************************)
AckEvent(id) == <<"_ack_", id>>
Wildcard == <<"*">>
AppEvents == {<<"ping">>}

\* event names an inbound EVENT packet can carry
InEvents == AppEvents \cup {Wildcard, AckEvent(0)}

(***************************************************************************)
(* Packets.                                                                *)
(***************************************************************************)
\* PacketType
PacketType == {"EVENT", "ACTION", "RESPONSE", "SYNC"}

\* inbound packets a server can send
InPackets ==
    {[type |-> "RESPONSE", payload |-> [id |-> i, data |-> d]] :
        i \in 0..1, d \in DataValues}
    \cup {[type |-> "EVENT", payload |-> [event |-> e, data |-> Obj([name |-> "a"])]] :
        e \in InEvents}
    \cup {[type |-> "SYNC", payload |-> [props |-> Obj([room |-> "x"]), authorized |-> TRUE]]}
    \cup {[type |-> "ACTION", payload |-> [name |-> "svc", action |-> "act", data |-> Null]]}

\* a message DecodePacket cannot parse
Malformed == [type |-> "malformed"]

VARIABLES
    options,          \* this.options: reconnect and the kind of codec
    sockets,          \* every transport made by Setup; this.socket is the last
    reconnect_tries,  \* this.reconnect_tries
    reconnectTimers,  \* pending setTimeout callbacks of disconnectHandler
    ack,              \* this.ack
    Emitter,          \* listeners registered on this.Emitter by ExpectResponse
    timeout,          \* per correlated call: the state of ExpectResponse's timer
    promise,          \* per correlated call: the promise ExpectResponse returned
    settles,          \* per correlated call: invocations of resolve or reject
    issued,           \* per correlated call: ack of its packet, event awaited,
                      \* the transport that was this.socket at the call, and
                      \* the delay its timer was armed with
    answers,          \* per correlated call: RESPONSE packets routed with its id
    encoding,         \* packets inside EncodePacket, not yet handed to socket.send
    wire,             \* the socket.send invocations of the last step
    decoding,         \* packets inside DecodePacket, not yet routed
    props,            \* this.props
    authorized,       \* this.authorized
    emitted,          \* the public events the last step emitted, in order
    logged,           \* the errors the last step passed to logger.error
    emits,            \* fire-and-forget operations issued so far
    codec,            \* one packet on its way through EncodePacket and DecodePacket
    listeners,        \* listeners the application registered on this.Emitter
    ops               \* outside events so far

vars == <<options, sockets, reconnect_tries, reconnectTimers, ack, Emitter,
          timeout, promise, settles, issued, answers, encoding, wire, decoding,
          props, authorized, emitted, logged, emits, codec, listeners, ops>>

\* index of this.socket in sockets
socket == Len(sockets)

\* this.socket.readyState
readyState == sockets[socket].readyState

\* the correlated calls made so far, in order of issue
Calls == 1..Len(promise)

\* a step that emits nothing on the public event names
Silent == <<>>

\* configurations: reconnect absent or {retries} with a built-in codec; a
\* custom encryption/decryption pair with reconnect {MaxRetries} (its runs
\* in which no reconnect timer fires are those of reconnect absent)
OptionValues ==
    {[reconnect |-> FALSE, retries |-> 0, custom |-> FALSE]}
    \cup {[reconnect |-> TRUE, retries |-> r, custom |-> FALSE] : r \in 0..MaxRetries}
    \cup {[reconnect |-> TRUE, retries |-> MaxRetries, custom |-> TRUE]}

\* Setup(): a new transport, CONNECTING, becomes this.socket
Setup == Append(sockets, [readyState |-> "CONNECTING", code |-> 0])

\* no packet is being followed through the codec
CodecIdle == [stage |-> "idle"]

\* the fields of a Client after the constructor has run
Constructed ==
    /\ sockets = Append(<<>>, [readyState |-> "CONNECTING", code |-> 0])
    /\ reconnect_tries = 0
    /\ reconnectTimers = 0
    /\ ack = 0
    /\ Emitter = {}
    /\ timeout = <<>>
    /\ promise = <<>>
    /\ settles = <<>>
    /\ issued = <<>>
    /\ answers = <<>>
    /\ encoding = <<>>
    /\ wire = <<>>
    /\ decoding = <<>>
    /\ props = Undefined
    /\ authorized = FALSE
    /\ emitted = Silent
    /\ logged = <<>>
    /\ emits = 0
    /\ listeners = {}
    /\ ops = 0

\* the state after the constructor has run
Init ==
    /\ options \in OptionValues
    /\ Constructed
    /\ codec = CodecIdle

(***************************************************************************)
(* The Emitter (EventEmitter2, wildcard mode, one-segment names).          *)
(***************************************************************************)
\* a listener registered under name ev is reached by emit(type)
Matches(type, ev) == type = ev \/ type = Wildcard

\* the arrow function the timeout callback creates: registered nowhere
FreshFn == 0

\* Emitter.removeListener(event, fn): drops the listener fn of that event
removeListener(E, event, fn) == E \ {l \in E : l.event = event /\ l.fn = fn}

\* clearTimeout(timeout) on a timer in state t
clearTimeout(t) == IF t = "armed" THEN "cleared" ELSE t

\* the once-listener of ExpectResponse, after clearTimeout: reject or resolve
Outcome(data) ==
    IF hasOwnProperty(data, "error")
    THEN [state |-> "rejected", value |-> Get(data, "error")]
    ELSE [state |-> "resolved", value |-> data]

\* resolve or reject on promise p: only a pending promise changes
Settle(p, o) == IF p.state = "pending" THEN o ELSE p

\* the calls whose listener emit(type, data) invokes: all that match, in
\* order of registration, up to the first one that throws
Invoked(type, data) ==
    LET hit == {l.fn : l \in {m \in Emitter : Matches(type, m.event)}}
    IN  IF hit = {} \/ ~Throws(data) THEN hit
        ELSE {CHOOSE n \in hit : \A m \in hit : n <= m}

\* a listener added with on instead of once stays registered
once_on(E, ns) == E

\* a once-listener is removed from the Emitter before it runs
once(E, ns) == E \ {l \in E : l.fn \in ns}

\* Emitter.emit(type, data) as far as the ack listeners go
EmitAckListeners(type, data) ==
    LET ns == Invoked(type, data)
    IN  /\ Emitter' = once(Emitter, ns)
        /\ timeout' = [n \in Calls |->
                IF n \in ns THEN clearTimeout(timeout[n]) ELSE timeout[n]]
        /\ promise' = [n \in Calls |->
                IF n \in ns /\ ~Throws(data)
                THEN Settle(promise[n], Outcome(data)) ELSE promise[n]]
        /\ settles' = [n \in Calls |->
                IF n \in ns /\ ~Throws(data) THEN settles[n] + 1 ELSE settles[n]]

\* what emit(type, data) throws: the TypeError of a listener that reads a
\* property of null
Thrown(type, data) ==
    IF Invoked(type, data) # {} /\ Throws(data) THEN <<TypeError>> ELSE <<>>

\* whether emit(type, ...) reaches an application listener registered for
\* event ev: by name, or by the wildcard on either side
Reaches(type, ev) == type = ev \/ type = Wildcard \/ ev = Wildcard

\* the application listeners emit(type, data) calls: those of onAny first,
\* then the ones registered for the event, unless an ack listener threw
Heard(type, data) ==
    {l \in listeners : l.kind = "any"} \cup
    (IF Thrown(type, data) # <<>> THEN {}
     ELSE {l \in listeners : l.kind # "any" /\ Reaches(type, l.event)})

\* the application listeners left after emit(type, ...): a listener added
\* with once is removed when it is called
Forget(type) ==
    listeners \ {l \in listeners : l.kind = "once" /\ Reaches(type, l.event)}

\* emitAck(id, data)
emitAck(id, data) == EmitAckListeners(AckEvent(id), data)

(***************************************************************************)
(* The facade: send, ExpectResponse and the public operations.             *)
(***************************************************************************)
\* a public event as the application's listeners receive it
Event(name, arg) == [name |-> name, arg |-> arg]

\* the promise of EncodePacket(packet): a built-in codec resolves or, when
\* JSON.stringify throws (ok = FALSE), rejects with EncodeError; a custom
\* encryption that rejects leaves the promise pending for ever
EncodeOutcome(packet, ok) ==
    IF ok THEN [state |-> "resolved", value |-> packet]
    ELSE IF options.custom THEN [state |-> "pending", value |-> Undefined]
    ELSE [state |-> "rejected", value |-> EncodeError]

\* send(packet): dropped unless this.socket is OPEN; otherwise EncodePacket
\* is started, and a rejected encode is logged and sends nothing
send(op, packet, ok) ==
    LET r == EncodeOutcome(packet, ok)
    IN  /\ encoding' = IF readyState = "OPEN" /\ r.state = "resolved"
                        THEN Append(encoding, [op |-> op, packet |-> r.value])
                        ELSE encoding
        /\ logged' = IF readyState = "OPEN" /\ r.state = "rejected"
                      THEN <<r.value>> ELSE <<>>

\* the event named after this.ack++ instead of before it
ExpectEvent_late == AckEvent(ack + 1)

\* const event = `_ack_${this.ack}`, taken before this.ack++
ExpectEvent == AckEvent(ack)

\* the default of options.responseTimeout
DefaultResponseTimeout == 30000

\* this.options.responseTimeout after the constructor merged the defaults
\* with the options it was given
responseTimeout ==
    IF "responseTimeout" \in DOMAIN options THEN options.responseTimeout
    ELSE DefaultResponseTimeout

\* a | b on non-negative numbers below 2^31, where ToInt32 changes nothing
RECURSIVE BitOr(_, _)
BitOr(a, b) ==
    IF a = 0 THEN b
    ELSE IF b = 0 THEN a
    ELSE 2 * BitOr(a \div 2, b \div 2) + (IF a % 2 = 1 \/ b % 2 = 1 THEN 1 ELSE 0)

\* the delay handed to setTimeout: this.options.responseTimeout | 30000
TimerDelay == BitOr(responseTimeout, 30000)

\* ExpectResponse(): a new promise, its timer and its once-listener
ExpectResponse ==
    /\ ack' = ack + 1
    /\ Emitter' = Emitter \cup {[event |-> ExpectEvent, fn |-> Len(promise) + 1]}
    /\ timeout' = Append(timeout, "armed")
    /\ promise' = Append(promise, [state |-> "pending", value |-> Undefined])
    /\ settles' = Append(settles, 0)

\* a correlated operation: send(packet with ack), then ExpectResponse()
Correlated(op, packet, ok) ==
    /\ ops < MaxOps
    /\ ops' = ops + 1
    /\ send(op, packet, ok)
    /\ ExpectResponse
    /\ issued' = Append(issued, [ack |-> packet.ack, event |-> ExpectEvent,
                                  socket |-> socket, delay |-> TimerDelay])
    /\ answers' = Append(answers, 0)
    /\ emitted' = Silent
    /\ wire' = <<>>
    /\ UNCHANGED <<options, listeners, codec, sockets, reconnect_tries, reconnectTimers, decoding, props, authorized, emits>>

\* a fire-and-forget operation that also consumes an ack id
Uncorrelated_ack(op, packet, ok) ==
    /\ ops < MaxOps
    /\ ops' = ops + 1
    /\ emits' = emits + 1
    /\ ack' = ack + 1
    /\ send(op, packet, ok)
    /\ emitted' = Silent
    /\ wire' = <<>>
    /\ UNCHANGED <<options, listeners, codec, sockets, reconnect_tries, reconnectTimers,
                   Emitter, timeout, promise, settles, issued, answers,
                   decoding, props, authorized>>

\* a fire-and-forget operation: send(packet without ack) and nothing else
Uncorrelated(op, packet, ok) ==
    /\ ops < MaxOps
    /\ ops' = ops + 1
    /\ emits' = emits + 1
    /\ send(op, packet, ok)
    /\ emitted' = Silent
    /\ wire' = <<>>
    /\ UNCHANGED <<options, listeners, codec, sockets, reconnect_tries, reconnectTimers, ack,
                   Emitter, timeout, promise, settles, issued, answers, decoding, props, authorized>>

\* authenticate(data)
authenticate(ok) ==
    Correlated("authenticate",
        [type |-> "ACTION", ack |-> ack,
         payload |-> [name |-> "internal", action |-> "auth", data |-> Obj([user |-> "u"])]], ok)

\* deauthenticate(data)
deauthenticate(ok) ==
    Correlated("deauthenticate",
        [type |-> "ACTION", ack |-> ack,
         payload |-> [name |-> "internal", action |-> "deauth", data |-> Undefined]], ok)

\* emitEvent(event, data)
emitEvent(ok) ==
    Uncorrelated("emitEvent",
        [type |-> "EVENT", payload |-> [event |-> <<"ping">>, data |-> EmptyObj]], ok)

\* callEvent(event, data)
callEvent(ok) ==
    Correlated("callEvent",
        [type |-> "EVENT", ack |-> ack,
         payload |-> [event |-> <<"ping">>, data |-> EmptyObj]], ok)

\* emit(name, action, data)
emit(ok) ==
    Uncorrelated("emit",
        [type |-> "ACTION",
         payload |-> [name |-> "users", action |-> "get", data |-> Obj([id |-> "1"])]], ok)

\* call(name, action, data)
call(ok) ==
    Correlated("call",
        [type |-> "ACTION", ack |-> ack,
         payload |-> [name |-> "users", action |-> "get", data |-> Obj([id |-> "1"])]], ok)

\* socket.close(2001, reason): the closing handshake starts with that code
close(code) ==
    [sockets EXCEPT ![socket] = [readyState |-> "CLOSING", code |-> code]]

\* a disconnect that asks for closure whatever the state of the transport
disconnect_always ==
    /\ ops < MaxOps
    /\ ops' = ops + 1
    /\ sockets' = close(NormalClosure)
    /\ emitted' = Silent
    /\ wire' = <<>>
    /\ logged' = <<>>
    /\ UNCHANGED <<options, listeners, codec, reconnect_tries, reconnectTimers, ack, Emitter,
                   timeout, promise, settles, issued, answers, encoding, decoding, props, authorized, emits>>

\* disconnect(reason): returns unless this.socket is OPEN, else
\* socket.close(2001, reason)
disconnect ==
    /\ ops < MaxOps
    /\ ops' = ops + 1
    /\ sockets' = IF readyState # "OPEN" THEN sockets ELSE close(NormalClosure)
    /\ emitted' = Silent
    /\ wire' = <<>>
    /\ logged' = <<>>
    /\ UNCHANGED <<options, listeners, codec, reconnect_tries, reconnectTimers, ack, Emitter,
                   timeout, promise, settles, issued, answers, encoding, decoding, props, authorized, emits>>

\* with a built-in codec the encode promise is already resolved and its
\* continuation runs before the event loop takes the next task; only the
\* caller's own synchronous code can come in between
Idle == options.custom \/ encoding = <<>>

\* the .then of send: this.socket.send(d), on whatever this.socket is then
EncodeDone(i) ==
    /\ i \in DOMAIN encoding
    /\ options.custom \/ i = 1
    /\ encoding' = [j \in 1..(Len(encoding) - 1) |->
                        IF j < i THEN encoding[j] ELSE encoding[j + 1]]
    /\ wire' = <<[op |-> encoding[i].op, packet |-> encoding[i].packet,
                   readyState |-> readyState]>>
    /\ emitted' = Silent
    /\ logged' = <<>>
    /\ UNCHANGED <<options, listeners, codec, sockets, reconnect_tries, reconnectTimers, ack,
                   Emitter, timeout, promise, settles, issued, answers, decoding,
                   props, authorized, emits, ops>>

(***************************************************************************)
(* Timers.                                                                 *)
(***************************************************************************)
\* the callback of ExpectResponse's setTimeout for call n:
\* this.Emitter.removeListener(event, () => reject(new ResponseTimeout()))
TimeoutCallback(n) ==
    /\ Emitter' = removeListener(Emitter, issued[n].event, FreshFn)
    /\ UNCHANGED <<promise, settles>>

\* the timer of call n fires
TimeoutFire(n) ==
    /\ Idle
    /\ n \in Calls
    /\ timeout[n] = "armed"
    /\ timeout' = [timeout EXCEPT ![n] = "fired"]
    /\ TimeoutCallback(n)
    /\ emitted' = Silent
    /\ wire' = <<>>
    /\ logged' = <<>>
    /\ UNCHANGED <<options, listeners, codec, sockets, reconnect_tries, reconnectTimers, ack,
                   issued, answers, encoding, decoding, props, authorized,
                   emits, ops>>

\* a reconnect callback run by setInterval: the timer stays pending
ReconnectFire_interval ==
    /\ Idle
    /\ reconnectTimers > 0
    /\ Len(sockets) < MaxSetups
    /\ reconnectTimers' = reconnectTimers
    /\ reconnect_tries' = reconnect_tries + 1
    /\ sockets' = Setup
    /\ emitted' = <<Event("reconnect", reconnect_tries + 1)>>
    /\ wire' = <<>>
    /\ logged' = <<>>
    /\ UNCHANGED <<options, listeners, codec, ack, Emitter, timeout, promise, settles,
                   issued, answers, encoding, decoding, props, authorized, emits,
                   ops>>

\* the callback of disconnectHandler's setTimeout fires
ReconnectFire ==
    /\ Idle
    /\ reconnectTimers > 0
    /\ reconnectTimers' = reconnectTimers - 1
    /\ reconnect_tries' = reconnect_tries + 1
    /\ sockets' = Setup
    /\ emitted' = <<Event("reconnect", reconnect_tries + 1)>>
    /\ wire' = <<>>
    /\ logged' = <<>>
    /\ UNCHANGED <<options, listeners, codec, ack, Emitter, timeout, promise, settles, issued,
                   answers, encoding, decoding, props, authorized, emits,
                   ops>>

(***************************************************************************)
(* The transport callbacks.                                                *)
(***************************************************************************)
\* a connectionHandler that only emits and keeps the attempt counter
connectionHandler_keep ==
    /\ reconnect_tries' = reconnect_tries
    /\ emitted' = <<Event("connected", 0)>>

\* connectionHandler(e)
connectionHandler ==
    /\ reconnect_tries' = 0
    /\ emitted' = <<Event("connected", 0)>>

\* the condition under which disconnectHandler schedules a reconnect
ShouldReconnect ==
    /\ options.reconnect
    /\ options.retries > 0
    /\ options.retries >= reconnect_tries

\* disconnectHandler without the early return of the normal-closure branch
disconnectHandler_fallthrough(code) ==
    /\ props' = EmptyObj
    /\ authorized' = FALSE
    /\ reconnectTimers' = IF ShouldReconnect THEN reconnectTimers + 1
                          ELSE reconnectTimers
    /\ emitted' = IF code = NormalClosure
                  THEN IF reconnect_tries = 0
                       THEN <<Event("disconnected", 0), Event("disconnected", 0)>>
                       ELSE <<Event("disconnected", 0)>>
                  ELSE IF reconnect_tries = 0 THEN <<Event("disconnected", 0)>>
                       ELSE Silent

\* disconnectHandler(e) for a close event with e.code = code
disconnectHandler(code) ==
    /\ props' = EmptyObj
    /\ authorized' = FALSE
    /\ IF code = NormalClosure
       THEN /\ emitted' = <<Event("disconnected", 0)>>
            /\ reconnectTimers' = reconnectTimers
       ELSE /\ reconnectTimers' = IF ShouldReconnect THEN reconnectTimers + 1
                                  ELSE reconnectTimers
            /\ emitted' = IF reconnect_tries = 0 THEN <<Event("disconnected", 0)>>
                          ELSE Silent

\* the Event object the transport hands to onerror
ErrorEvent == Obj([type |-> "error"])

\* an error handler that emits on the wildcard name
errorHandler_wildcard ==
    /\ EmitAckListeners(Wildcard, ErrorEvent)
    /\ emitted' = <<Event("error", 0)>>

\* errorHandler(e): this.Emitter.emit('error', e)
errorHandler ==
    /\ EmitAckListeners(<<"error">>, ErrorEvent)
    /\ emitted' = <<Event("error", 0)>>

\* the calls a RESPONSE with this id answers
Answered(id) == {n \in Calls : issued[n].ack = id}

\* a SYNC branch that takes the props and leaves this.authorized alone
sync_props(payload) ==
    /\ props' = payload.props
    /\ authorized' = authorized

\* case PacketType.SYNC: this.props = sync.props; this.authorized = sync.authorized
sync(payload) ==
    /\ props' = payload.props
    /\ authorized' = payload.authorized

\* the continuation of messageHandler: the switch on packet.type; what it
\* throws goes to the .catch of messageHandler and is logged
Route(packet) ==
    CASE packet.type = "SYNC" ->
            /\ sync(packet.payload)
            /\ emitted' = Silent
            /\ logged' = <<>>
            /\ UNCHANGED <<Emitter, timeout, promise, settles, answers, listeners>>
      [] packet.type = "RESPONSE" ->
            /\ emitAck(packet.payload.id, packet.payload.data)
            /\ answers' = [n \in Calls |->
                    IF n \in Answered(packet.payload.id) THEN answers[n] + 1
                    ELSE answers[n]]
            /\ emitted' = Silent
            /\ logged' = Thrown(AckEvent(packet.payload.id), packet.payload.data)
            /\ listeners' = Forget(AckEvent(packet.payload.id))
            /\ UNCHANGED <<props, authorized>>
      [] OTHER ->
            \* this.Emitter.emit(event.event, event.data); a payload without
            \* an event name makes emit throw
            IF "event" \in DOMAIN packet.payload
            THEN /\ EmitAckListeners(packet.payload.event, packet.payload.data)
                 /\ emitted' = IF packet.payload.event \in AppEvents \cup {Wildcard}
                               THEN <<Event("app", 0)>> ELSE Silent
                 /\ logged' = Thrown(packet.payload.event, packet.payload.data)
                 /\ listeners' = Forget(packet.payload.event)
                 /\ UNCHANGED <<props, authorized, answers>>
            ELSE /\ emitted' = Silent
                 /\ logged' = <<TypeError>>
                 /\ UNCHANGED <<props, authorized, Emitter, timeout, promise,
                                settles, answers, listeners>>

\* the promise of DecodePacket(message): a built-in codec resolves with the
\* packet or, when JSON.parse throws, rejects with DecodeError; a custom
\* decryption that rejects leaves the promise pending for ever
DecodeOutcome(message) ==
    IF message # Malformed THEN [state |-> "resolved", value |-> message]
    ELSE IF options.custom THEN [state |-> "pending", value |-> Undefined]
    ELSE [state |-> "rejected", value |-> DecodeError]

\* a .catch that also reports the error on the public `error` event
catch_emits(e) ==
    /\ logged' = <<e>>
    /\ emitted' = <<Event("error", 0)>>
    /\ UNCHANGED <<decoding, props, authorized, Emitter, timeout, promise,
                   settles, answers, listeners>>

\* .catch(e => this.logger.error(e)) of messageHandler, for a rejected decode
catch(e) ==
    /\ logged' = <<e>>
    /\ emitted' = Silent
    /\ UNCHANGED <<decoding, props, authorized, Emitter, timeout, promise,
                   settles, answers, listeners>>

\* messageHandler(e): DecodePacket, then Route.  A built-in codec resolves
\* at once and Route runs before the next task; a custom decryption is
\* awaited.  A rejected decode is logged and the message dropped; a decode
\* that never settles runs nothing.
messageHandler(msg) ==
    LET r == DecodeOutcome(msg)
    IN  CASE r.state = "rejected" -> catch(r.value)
          [] r.state = "pending" ->
                /\ emitted' = Silent
                /\ logged' = <<>>
                /\ UNCHANGED <<decoding, props, authorized, Emitter, timeout,
                               promise, settles, answers, listeners>>
          [] r.state = "resolved" /\ options.custom ->
                /\ decoding' = Append(decoding, r.value)
                /\ emitted' = Silent
                /\ logged' = <<>>
                /\ UNCHANGED <<props, authorized, Emitter, timeout, promise,
                               settles, answers, listeners>>
          [] OTHER ->
                /\ Route(r.value)
                /\ UNCHANGED decoding

\* the transport of socket s opens
TransportOpen(s) ==
    /\ Idle
    /\ s \in DOMAIN sockets
    /\ sockets[s].readyState = "CONNECTING"
    /\ sockets' = [sockets EXCEPT ![s].readyState = "OPEN"]
    /\ connectionHandler
    /\ wire' = <<>>
    /\ logged' = <<>>
    /\ UNCHANGED <<options, listeners, codec, reconnectTimers, ack, Emitter, timeout, promise,
                   settles, issued, answers, encoding, decoding, props,
                   authorized, emits, ops>>

\* the close codes the close event of socket s can carry: the one asked for
\* by socket.close, 1006 for a connection that never opened, any otherwise
CodesOf(s) ==
    CASE sockets[s].readyState = "CLOSING" -> {sockets[s].code}
      [] sockets[s].readyState = "CONNECTING" -> CloseCodes \ {NormalClosure}
      [] OTHER -> CloseCodes

\* the transport of socket s closes with the given code
TransportClose(s, code) ==
    /\ Idle
    /\ ops < MaxOps
    /\ ops' = ops + 1
    /\ s \in DOMAIN sockets
    /\ sockets[s].readyState # "CLOSED"
    /\ code \in CodesOf(s)
    /\ sockets' = [sockets EXCEPT ![s] = [readyState |-> "CLOSED", code |-> code]]
    /\ disconnectHandler(code)
    /\ wire' = <<>>
    /\ logged' = <<>>
    /\ UNCHANGED <<options, listeners, codec, reconnect_tries, ack, Emitter, timeout, promise,
                   settles, issued, answers, encoding, decoding, emits>>

\* the transport of socket s delivers a message
TransportMessage(s, msg) ==
    /\ Idle
    /\ ops < MaxOps
    /\ ops' = ops + 1
    /\ s \in DOMAIN sockets
    /\ sockets[s].readyState \in {"OPEN", "CLOSING"}
    /\ messageHandler(msg)
    /\ wire' = <<>>
    /\ UNCHANGED <<options, codec, sockets, reconnect_tries, reconnectTimers, ack,
                   issued, encoding, emits>>

\* the transport of socket s reports an error
TransportError(s) ==
    /\ Idle
    /\ ops < MaxOps
    /\ ops' = ops + 1
    /\ s \in DOMAIN sockets
    /\ sockets[s].readyState # "CLOSED"
    /\ errorHandler
    /\ wire' = <<>>
    /\ logged' = <<>>
    /\ UNCHANGED <<options, listeners, codec, sockets, reconnect_tries, reconnectTimers, ack,
                   issued, answers, encoding, decoding, props, authorized, emits>>

\* a custom decryption resolves: the packet i in flight is routed
DecodeDone(i) ==
    /\ i \in DOMAIN decoding
    /\ decoding' = [j \in 1..(Len(decoding) - 1) |->
                        IF j < i THEN decoding[j] ELSE decoding[j + 1]]
    /\ Route(decoding[i])
    /\ wire' = <<>>
    /\ UNCHANGED <<options, codec, sockets, reconnect_tries, reconnectTimers, ack,
                   issued, encoding, emits, ops>>

Next ==
    \/ \E ok \in BOOLEAN : authenticate(ok)
    \/ \E ok \in BOOLEAN : deauthenticate(ok)
    \/ \E ok \in BOOLEAN : emitEvent(ok)
    \/ \E ok \in BOOLEAN : callEvent(ok)
    \/ \E ok \in BOOLEAN : emit(ok)
    \/ \E ok \in BOOLEAN : call(ok)
    \/ disconnect
    \/ \E i \in 1..MaxInFlight : EncodeDone(i)
    \/ \E n \in 1..MaxCalls : TimeoutFire(n)
    \/ ReconnectFire
    \/ \E s \in 1..MaxSetups : TransportOpen(s)
    \/ \E s \in 1..MaxSetups, code \in CloseCodes : TransportClose(s, code)
    \/ \E s \in 1..MaxSetups, msg \in InPackets \cup {Malformed} : TransportMessage(s, msg)
    \/ \E s \in 1..MaxSetups : TransportError(s)
    \/ \E i \in 1..MaxInFlight : DecodeDone(i)

Spec == Init /\ [][Next]_vars

TypeOK ==
    /\ options \in OptionValues
    /\ ack \in 0..MaxCalls
    /\ ops \in 0..MaxOps
    /\ Len(sockets) <= MaxSetups
    /\ Len(encoding) <= MaxInFlight /\ Len(decoding) <= MaxInFlight
    /\ Len(promise) = Len(timeout) /\ Len(promise) = Len(settles)
    /\ Len(promise) = Len(issued) /\ Len(promise) = Len(answers)
    /\ reconnect_tries \in 0..MaxSetups
    /\ \A s \in DOMAIN sockets :
            sockets[s].readyState \in {"CONNECTING", "OPEN", "CLOSING", "CLOSED"}

(***************************************************************************)
(* The codec: EncodePacket and DecodePacket on texts of UTF-16 code units. *)
(***************************************************************************)
\* code units of the strings inside packets: a, e-acute and the euro sign
Units == {97, 233, 8364}

\* a Uint8Array element keeps the low 8 bits of the number stored in it
ToUint8(c) == c % 256

\* code units a decoded text can hold
DecodedUnits == Units \cup {ToUint8(c) : c \in Units}

\* the strings over the code units U
Texts(U) == UNION {[1..n -> U] : n \in 0..MaxLen}

\* the Packet values whose strings are over U: every payload variant, with
\* and without ack
PacketsOver(U) ==
    LET payloads ==
               {[event |-> <<101>>, data |-> t] : t \in Texts(U)}
          \cup {[name |-> <<110>>, action |-> <<97>>, data |-> t] : t \in Texts(U)}
          \cup {[id |-> 0, data |-> t] : t \in Texts(U)}
          \cup {[props |-> [room |-> t], authorized |-> TRUE] : t \in Texts(U)}
        TypeOf(pl) == IF "event" \in DOMAIN pl THEN 0
                      ELSE IF "name" \in DOMAIN pl THEN 1
                      ELSE IF "id" \in DOMAIN pl THEN 2 ELSE 3
    IN       {[type |-> TypeOf(pl), payload |-> pl] : pl \in payloads}
        \cup {[type |-> TypeOf(pl), ack |-> 0, payload |-> pl] : pl \in payloads}

\* a packet whose data refers to itself: JSON.stringify throws on it
Circular == [type |-> 1, payload |-> [name |-> <<110>>, action |-> <<97>>, circular |-> TRUE]]

\* JSON text of a string without quotes or backslashes: "t"
Quoted(t) == <<34>> \o t \o <<34>>

\* JSON text of a key: "k":
Key(k) == Quoted(k) \o <<58>>

\* JSON text of a payload, keys in the order of the object literal
stringifyPayload(pl) ==
    IF "event" \in DOMAIN pl
    THEN <<123>> \o Key(<<101, 118, 101, 110, 116>>) \o Quoted(pl.event) \o <<44>>
               \o Key(<<100, 97, 116, 97>>) \o Quoted(pl.data) \o <<125>>
    ELSE IF "name" \in DOMAIN pl
    THEN <<123>> \o Key(<<110, 97, 109, 101>>) \o Quoted(pl.name) \o <<44>>
               \o Key(<<97, 99, 116, 105, 111, 110>>) \o Quoted(pl.action) \o <<44>>
               \o Key(<<100, 97, 116, 97>>) \o Quoted(pl.data) \o <<125>>
    ELSE IF "id" \in DOMAIN pl
    THEN <<123>> \o Key(<<105, 100>>) \o <<48 + pl.id>> \o <<44>>
               \o Key(<<100, 97, 116, 97>>) \o Quoted(pl.data) \o <<125>>
    ELSE <<123>> \o Key(<<112, 114, 111, 112, 115>>) \o <<123>> \o Key(<<114, 111, 111, 109>>)
               \o Quoted(pl.props.room) \o <<125, 44>>
               \o Key(<<97, 117, 116, 104, 111, 114, 105, 122, 101, 100>>) \o <<116, 114, 117, 101>> \o <<125>>

\* JSON.stringify(packet): {"type":n,"ack":n,"payload":{...}}
stringify(packet) ==
    <<123>> \o Key(<<116, 121, 112, 101>>) \o <<48 + packet.type>> \o <<44>>
        \o (IF "ack" \in DOMAIN packet
            THEN Key(<<97, 99, 107>>) \o <<48 + packet.ack>> \o <<44>> ELSE <<>>)
        \o Key(<<112, 97, 121, 108, 111, 97, 100>>) \o stringifyPayload(packet.payload)
        \o <<125>>

\* JSON.parse(text): the packet whose JSON text it is, or a SyntaxError
parse(text) ==
    LET hit == {p \in PacketsOver(DecodedUnits) : stringify(p) = text}
    IN  IF hit = {} THEN [ok |-> FALSE]
        ELSE [ok |-> TRUE, value |-> CHOOSE p \in hit : TRUE]

\* isFunction(x)
isFunction(x) == x = "function"

\* what a custom encryption resolves with: opaque to the client
Sealed(packet) == [kind |-> "sealed", packet |-> packet]

\* a promise that was resolved, rejected, or is never settled
Resolved(v) == [state |-> "resolved", value |-> v]
Rejected(e) == [state |-> "rejected", value |-> e]
NeverSettled == [state |-> "pending"]

\* EncodePacket(packet); encrypts tells whether the custom function resolves
EncodePacket(packet, encrypts) ==
    IF isFunction(options.encryption)
    THEN \* encrypt(packet).then(resolve).catch(err => new EncodeError(err))
         IF encrypts THEN Resolved(Sealed(packet)) ELSE NeverSettled
    ELSE IF packet = Circular THEN Rejected(EncodeError)
    ELSE IF options.encryption = "JSON"
    THEN Resolved([kind |-> "string", text |-> stringify(packet)])
    ELSE Resolved([kind |-> "buffer",
                   bytes |-> [i \in DOMAIN stringify(packet) |->
                                    ToUint8(stringify(packet)[i])]])

\* new Uint8Array(message).reduce((p, c) => p + String.fromCharCode(c), '')
fromBytes(message) ==
    IF message.kind = "buffer" THEN message.bytes ELSE <<>>

\* DecodePacket(message); decrypts tells whether the custom function resolves
DecodePacket(message, decrypts) ==
    IF isFunction(options.encryption) /\ isFunction(options.decryption)
    THEN \* decryption(message).then(resolve).catch(err => new DecodeError(err))
         IF decrypts /\ message.kind = "sealed"
         THEN Resolved(message.packet) ELSE NeverSettled
    ELSE LET text == IF options.encryption = "JSON"
                     THEN IF message.kind = "string" THEN message.text ELSE <<>>
                     ELSE fromBytes(message)
         IN  IF parse(text).ok THEN Resolved(parse(text).value)
             ELSE Rejected(DecodeError)

\* the codec configurations: encryption is a built-in mode or a function,
\* decryption is absent or a function, in every combination
CodecOptions ==
    {[reconnect |-> FALSE, retries |-> 0, custom |-> isFunction(e),
      encryption |-> e, decryption |-> d] :
        e \in {"JSON", "Binary", "function"}, d \in {"none", "function"}}

\* a message the transport damaged on the way: the text {
Garbage == [kind |-> "buffer", bytes |-> <<123>>]

\* a packet is handed to EncodePacket of a freshly constructed Client
CodecInit ==
    /\ options \in CodecOptions
    /\ Constructed
    /\ codec \in {[stage |-> "packet", packet |-> p, encrypts |-> e, decrypts |-> d,
                   garbled |-> FALSE, encoded |-> NeverSettled, decoded |-> NeverSettled] :
                    p \in PacketsOver(Units) \cup {Circular},
                    e \in IF options.custom THEN BOOLEAN ELSE {TRUE},
                    d \in IF options.custom /\ isFunction(options.decryption)
                          THEN BOOLEAN ELSE {TRUE}}

\* EncodePacket runs on the packet
CodecEncode ==
    /\ codec.stage = "packet"
    /\ codec' = [codec EXCEPT !.stage = "encoded",
                              !.encoded = EncodePacket(codec.packet, codec.encrypts)]
    /\ UNCHANGED <<options, listeners, sockets, reconnect_tries, reconnectTimers, ack,
                   Emitter, timeout, promise, settles, issued, answers,
                   encoding, wire, decoding, props, authorized, emitted,
                   logged, emits, ops>>

\* the transport delivers garbage in place of the encoded message
CodecGarble ==
    /\ codec.stage = "encoded"
    /\ codec.encoded.state = "resolved"
    /\ ~codec.garbled
    /\ codec' = [codec EXCEPT !.garbled = TRUE, !.encoded = Resolved(Garbage)]
    /\ UNCHANGED <<options, listeners, sockets, reconnect_tries, reconnectTimers, ack,
                   Emitter, timeout, promise, settles, issued, answers,
                   encoding, wire, decoding, props, authorized, emitted,
                   logged, emits, ops>>

\* DecodePacket runs on the message EncodePacket resolved with
CodecDecode ==
    /\ codec.stage = "encoded"
    /\ codec.encoded.state = "resolved"
    /\ codec' = [codec EXCEPT !.stage = "decoded",
                              !.decoded = DecodePacket(codec.encoded.value, codec.decrypts)]
    /\ UNCHANGED <<options, listeners, sockets, reconnect_tries, reconnectTimers, ack,
                   Emitter, timeout, promise, settles, issued, answers,
                   encoding, wire, decoding, props, authorized, emitted,
                   logged, emits, ops>>

CodecNext == CodecEncode \/ CodecGarble \/ CodecDecode

CodecSpec == CodecInit /\ [][CodecNext]_vars

(***************************************************************************)
(* The timer of a correlated call under a configured responseTimeout.      *)
(***************************************************************************)
\* values given as options.responseTimeout, in milliseconds
TimeoutValues == {1, 1000, 5000, 30000, 60000}

\* options without a responseTimeout and with each of the values
TimerOptions ==
    {[reconnect |-> FALSE, retries |-> 0, custom |-> FALSE]} \cup
    {[reconnect |-> FALSE, retries |-> 0, custom |-> FALSE, responseTimeout |-> T] :
        T \in TimeoutValues}

\* a Client constructed with one of these options
TimerInit ==
    /\ options \in TimerOptions
    /\ Constructed
    /\ codec = CodecIdle

\* the transport opens, correlated calls are made and their timers fire
TimerNext ==
    \/ \E ok \in BOOLEAN : authenticate(ok)
    \/ \E ok \in BOOLEAN : deauthenticate(ok)
    \/ \E ok \in BOOLEAN : callEvent(ok)
    \/ \E ok \in BOOLEAN : call(ok)
    \/ \E i \in 1..MaxInFlight : EncodeDone(i)
    \/ \E n \in 1..MaxCalls : TimeoutFire(n)
    \/ \E s \in 1..MaxSetups : TransportOpen(s)

TimerSpec == TimerInit /\ [][TimerNext]_vars

(***************************************************************************)
(* The listener operations of this.Emitter that the constructor binds to   *)
(* the Client.                                                             *)
(***************************************************************************)
\* the event names the application listens to with on
ListenEvents == {AckEvent(0), Wildcard}

\* an operation of the application that registers or removes listeners: it
\* emits nothing and leaves the transport and the calls alone
Surface ==
    /\ ops < MaxOps
    /\ ops' = ops + 1
    /\ emitted' = Silent
    /\ wire' = <<>>
    /\ logged' = <<>>
    /\ UNCHANGED <<options, codec, sockets, reconnect_tries, reconnectTimers, ack,
                   timeout, promise, settles, issued, answers, encoding,
                   decoding, props, authorized, emits>>

\* client.on(event, fn)
Client_on(event) ==
    /\ Surface
    /\ listeners' = listeners \cup {[kind |-> "on", event |-> event]}
    /\ UNCHANGED Emitter

\* client.once(event, fn)
Client_once(event) ==
    /\ Surface
    /\ listeners' = listeners \cup {[kind |-> "once", event |-> event]}
    /\ UNCHANGED Emitter

\* client.onAny(fn)
Client_onAny ==
    /\ Surface
    /\ listeners' = listeners \cup {[kind |-> "any", event |-> Wildcard]}
    /\ UNCHANGED Emitter

\* client.removeListener(event, fn) with a function the application
\* registered: the closures of ExpectResponse are not reachable to it
Client_removeListener(l) ==
    /\ Surface
    /\ l \in listeners
    /\ l.kind # "any"
    /\ listeners' = listeners \ {l}
    /\ UNCHANGED Emitter

\* client.removeAllListeners(type): every listener the name reaches is
\* dropped, whoever registered it; '*' reaches every one-segment name, as
\* the call without an argument does.  Listeners of onAny are kept apart.
Client_removeAllListeners(type) ==
    /\ Surface
    /\ listeners' = {l \in listeners : l.kind = "any" \/ ~Reaches(type, l.event)}
    /\ Emitter' = {l \in Emitter : ~Reaches(type, l.event)}

\* a step of the listener operations
SurfaceOp ==
    \/ \E event \in ListenEvents : Client_on(event)
    \/ \E event \in AppEvents : Client_once(event)
    \/ Client_onAny
    \/ \E l \in listeners : Client_removeListener(l)
    \/ \E type \in ListenEvents : Client_removeAllListeners(type)

\* the Client with the application also using the listener operations
SurfaceNext == Next \/ SurfaceOp

SurfaceSpec == Init /\ [][SurfaceNext]_vars

(***************************************************************************)
(* Properties.                                                             *)
(***************************************************************************)
\* call n still has its listener on the Emitter: its pending entry
Pending(n) == \E l \in Emitter : l.fn = n

\* the operations that await a RESPONSE
CorrelatedOps == {"authenticate", "deauthenticate", "callEvent", "call"}

\* this step routes the inbound packet pkt (Route runs on it)
Routing(pkt) ==
    \/ ~options.custom /\ \E s \in 1..MaxSetups : TransportMessage(s, pkt)
    \/ \E i \in 1..MaxInFlight : i \in DOMAIN decoding /\ decoding[i] = pkt /\ DecodeDone(i)

\* C1: once the timeout timer of a correlated call has fired, the call is
\* rejected with ResponseTimeout and no listener for its id is registered.
C1_TimeoutRejects ==
    \A n \in Calls :
        timeout[n] = "fired" =>
            /\ promise[n] = [state |-> "rejected", value |-> ResponseTimeout]
            /\ ~Pending(n)

\* C2: resolve or reject is invoked at most once per issued ack id, also
\* when a second RESPONSE with the same id arrives after the first.
C2_AtMostOneSettlement == \A n \in Calls : settles[n] <= 1

\* C2 witness: two RESPONSEs with the id of a call were routed, one settled it
C2_Witness == \E n \in Calls : answers[n] >= 2 /\ settles[n] = 1

\* C3: a RESPONSE routed after the timer of its call fired neither resolves
\* nor rejects the call, and a timer firing after a settlement changes nothing.
C3_LateResponseIgnored ==
    [][\A n \in Calls :
        /\ timeout[n] = "fired" =>
                (promise'[n] = promise[n] /\ settles'[n] = settles[n])
        /\ (settles[n] > 0 /\ timeout[n] # "fired" /\ timeout'[n] = "fired") =>
                (promise'[n] = promise[n] /\ settles'[n] = settles[n])]_vars

\* C4: a RESPONSE matching a pending call whose data is an object rejects the
\* call with a ClientError wrapping the error field of the data, or resolves
\* it with the data when the data has no error field.
C4_ErrorWrapped ==
    [][\A pkt \in {p \in InPackets : p.type = "RESPONSE" /\ p.payload.data.t = "obj"} :
       \A n \in Calls :
        (Routing(pkt) /\ [event |-> AckEvent(pkt.payload.id), fn |-> n] \in Emitter) =>
            promise'[n] =
                IF hasOwnProperty(pkt.payload.data, "error")
                THEN [state |-> "rejected",
                      value |-> ClientError(Get(pkt.payload.data, "error"))]
                ELSE [state |-> "resolved", value |-> pkt.payload.data]]_vars

\* C5: with retries = N the client opens at most N new transports in a row
\* without a successful connection in between.
C5_AtMostRetries == reconnect_tries <= options.retries

\* C6: with reconnect configured an unexpected close emits `disconnected`
\* exactly when no further attempt is scheduled, and without reconnect the
\* close itself emits it.
C6_DisconnectedAfterLastAttempt ==
    [][\A s \in 1..MaxSetups : \A code \in CloseCodes \ {NormalClosure} :
        TransportClose(s, code) =>
            IF options.reconnect /\ options.retries > 0
            THEN (emitted' = <<Event("disconnected", 0)>>)
                    <=> (reconnectTimers' = reconnectTimers)
            ELSE emitted' = <<Event("disconnected", 0)>>]_vars

\* C7: a close with the normal-closure code schedules no reconnect timer,
\* opens no transport and emits exactly one `disconnected`; no reconnect
\* timer is pending while the current transport is closed that way.
C7_NormalClosureStops ==
    /\ [](\A s \in DOMAIN sockets :
            (s = socket /\ sockets[s] = [readyState |-> "CLOSED", code |-> NormalClosure])
                => reconnectTimers = 0)
    /\ [][\A s \in 1..MaxSetups :
            TransportClose(s, NormalClosure) =>
                /\ reconnectTimers' = reconnectTimers
                /\ Len(sockets') = Len(sockets)
                /\ emitted' = <<Event("disconnected", 0)>>]_vars

\* C7 witness: the current transport was closed with the normal code while
\* reconnect was configured with attempts remaining
C7_Witness ==
    /\ sockets[socket] = [readyState |-> "CLOSED", code |-> NormalClosure]
    /\ ShouldReconnect
    /\ emitted = <<Event("disconnected", 0)>>
    /\ reconnectTimers = 0

\* C8: every correlated call registers a pending entry when it is issued and
\* is rejected once its timer has fired, whether or not its request was sent.
C8_EventuallySettles ==
    \A n \in Calls :
        /\ (timeout[n] = "armed" /\ settles[n] = 0) => Pending(n)
        /\ timeout[n] = "fired" => promise[n].state = "rejected"

\* C9: the id a call waits for is the ack of the packet built for it, ids
\* strictly increase and the counter never decreases, no two pending calls
\* share an id, and a packet carries an ack iff its operation is correlated.
C9_AckIds ==
    /\ [](/\ \A n \in Calls : issued[n].event = AckEvent(issued[n].ack)
          /\ \A m \in Calls : \A n \in Calls :
                m < n => issued[m].ack < issued[n].ack
          /\ \A l1 \in Emitter : \A l2 \in Emitter :
                l1.event = l2.event => l1 = l2
          /\ \A i \in DOMAIN encoding :
                ("ack" \in DOMAIN encoding[i].packet) <=> (encoding[i].op \in CorrelatedOps)
          /\ \A i \in DOMAIN wire :
                ("ack" \in DOMAIN wire[i].packet) <=> (wire[i].op \in CorrelatedOps))
    /\ [][ack' >= ack]_vars

\* C9 witness: with two calls pending and a reconnect behind it, the client
\* has just sent the packet of its second call
C9_Witness ==
    /\ Len(sockets) >= 2
    /\ Cardinality(Emitter) = 2
    /\ ~options.custom
    /\ wire # <<>>
    /\ "ack" \in DOMAIN wire[1].packet
    /\ wire[1].packet.ack = 1

\* C10: emitEvent and emit register no listener, arm no timer, create no
\* promise and leave the ack counter alone, whatever the connection state.
C10_FireAndForget ==
    [][emits' # emits =>
        /\ Emitter' = Emitter
        /\ timeout' = timeout
        /\ promise' = promise
        /\ ack' = ack]_vars

\* C10 witness: a fire-and-forget operation was issued on a transport that
\* never left CONNECTING, with a correlated call pending
C10_Witness ==
    /\ emits > 0
    /\ Len(sockets) = 1
    /\ readyState = "CONNECTING"
    /\ Emitter # {}

\* C11: routing an inbound SYNC packet sets props and authorized to the
\* values of the packet in that step, emits no public event and leaves
\* every promise, listener and timer of the correlated calls as it was.
C11_SyncSetsSession ==
    [][\A pkt \in {p \in InPackets : p.type = "SYNC"} :
        Routing(pkt) =>
            /\ props' = pkt.payload.props
            /\ authorized' = pkt.payload.authorized
            /\ emitted' = Silent
            /\ promise' = promise /\ settles' = settles
            /\ Emitter' = Emitter /\ timeout' = timeout]_vars

\* C11 witness: a SYNC was routed on an open transport while a call is pending
C11_Witness ==
    /\ props = Obj([room |-> "x"])
    /\ authorized
    /\ readyState = "OPEN"
    /\ emitted = Silent
    /\ \E n \in Calls : Pending(n) /\ promise[n].state = "pending"

\* a transport closed and no transport has opened since
AfterClose ==
    \/ readyState = "CLOSED"
    \/ readyState = "CONNECTING" /\ Len(sockets) > 1

\* C12: every transport close resets props to {} and authorized to false,
\* only a routed SYNC packet or that reset changes them, and from a close to
\* the next transport-open they hold the defaults.
C12_SessionDefaultsAfterClose ==
    /\ [](AfterClose => (props = EmptyObj /\ authorized = FALSE))
    /\ [][\A s \in 1..MaxSetups : \A code \in CloseCodes :
            TransportClose(s, code) => (props' = EmptyObj /\ authorized' = FALSE)]_vars
    /\ [][(props' # props \/ authorized' # authorized) =>
            \/ \E pkt \in {p \in InPackets : p.type = "SYNC"} : Routing(pkt)
            \/ \E s \in 1..MaxSetups : \E code \in CloseCodes : TransportClose(s, code)]_vars

\* C13: socket.send is invoked only on a transport that is OPEN at that
\* moment, and a packet submitted while this.socket is not OPEN never
\* enters the encoder.
C13_SendOnlyWhenOpen ==
    /\ [](\A i \in DOMAIN wire : wire[i].readyState = "OPEN")
    /\ [][readyState # "OPEN" => Len(encoding') <= Len(encoding)]_vars

\* C14: inbound packets are routed in the order their messages arrived: a
\* step that routes a packet out of the decoder routes the earliest one in
\* it, and with a built-in codec no packet waits in the decoder at all.
C14_RoutedInArrivalOrder ==
    /\ [](~options.custom => decoding = <<>>)
    /\ [][(\E i \in 1..MaxInFlight : DecodeDone(i)) => DecodeDone(1)]_vars

\* C15: disconnect() on a transport that is not OPEN changes nothing and
\* asks for no closure; on an OPEN transport it asks for closure with the
\* normal-closure code, and the close that follows schedules no reconnect.
C15_DisconnectOnlyWhenOpen ==
    /\ [][disconnect =>
            IF readyState = "OPEN"
            THEN sockets' = [sockets EXCEPT ![socket] =
                                [readyState |-> "CLOSING", code |-> NormalClosure]]
            ELSE UNCHANGED <<options, listeners, codec, sockets, reconnect_tries, reconnectTimers,
                             ack, Emitter, timeout, promise, settles, issued,
                             encoding, decoding, props, authorized>>
                 /\ emitted' = Silent /\ wire' = <<>>]_vars
    /\ [][\A s \in 1..MaxSetups : \A code \in CloseCodes :
            (TransportClose(s, code) /\ sockets[s].readyState = "CLOSING") =>
                /\ code = NormalClosure
                /\ reconnectTimers' = reconnectTimers
                /\ Len(sockets') = Len(sockets)]_vars

\* C15 witness: disconnect() was called on a closed transport while a
\* reconnect timer was pending (no other operation counts a second outside
\* event while leaving the calls, the emits and the timer as they are)
C15_Witness ==
    /\ ops = 2
    /\ readyState = "CLOSED"
    /\ reconnectTimers = 1
    /\ promise = <<>> /\ emits = 0
    /\ emitted = Silent

\* call n was made before its transport closed and is settled in this step
SettledAcrossClose(n) ==
    /\ sockets[issued[n].socket].readyState = "CLOSED"
    /\ settles'[n] # settles[n]

\* C16: disconnect(), a transport close and a reconnect leave the pending
\* entries, the promises, the timers and the ack counter as they were, and a
\* call still pending after its transport closed is settled only by its own
\* timer or by a routed RESPONSE carrying its id.
C16_PendingSurvivesClose ==
    /\ [][(\/ disconnect
           \/ ReconnectFire
           \/ \E s \in 1..MaxSetups : \E code \in CloseCodes : TransportClose(s, code)) =>
                /\ Emitter' = Emitter /\ timeout' = timeout
                /\ promise' = promise /\ settles' = settles
                /\ ack' = ack]_vars
    /\ [][\A n \in Calls :
            SettledAcrossClose(n) =>
                \/ TimeoutFire(n)
                \/ \E pkt \in {p \in InPackets : p.type = "RESPONSE"} :
                        pkt.payload.id = issued[n].ack /\ Routing(pkt)]_vars

\* C17: a transport-error callback emits `error` and nothing else: it
\* leaves the transports, the reconnect timers and attempt counter, props
\* and authorized, and every listener, promise and timer of the correlated
\* calls as they were.
C17_ErrorOnlyEmits ==
    [][\A s \in 1..MaxSetups :
        TransportError(s) =>
            /\ emitted' = <<Event("error", 0)>>
            /\ UNCHANGED <<sockets, reconnect_tries, reconnectTimers, props,
                           authorized, Emitter, timeout, promise, settles, ack>>]_vars

\* C17 witness: an error was reported on an open transport with reconnect
\* configured, the session authorized and a call pending
C17_Witness ==
    /\ emitted = <<Event("error", 0)>>
    /\ readyState = "OPEN"
    /\ ShouldReconnect
    /\ authorized
    /\ \E n \in Calls : Pending(n) /\ promise[n].state = "pending"

\* C18: a message whose decode fails is dropped: the step emits no public
\* event, settles and removes no pending call, leaves props and authorized
\* alone, and leaves the transport and the decoder as they were, so that
\* the messages that follow are handled as before.
C18_DecodeFailureDrops ==
    [][\A s \in 1..MaxSetups :
        TransportMessage(s, Malformed) =>
            /\ emitted' = Silent
            /\ UNCHANGED <<sockets, reconnectTimers, reconnect_tries, decoding,
                           props, authorized, Emitter, timeout, promise,
                           settles>>]_vars

\* C18 witness: a decode failure was logged on an open transport with the
\* session authorized and a call pending
C18_Witness ==
    /\ logged = <<DecodeError>>
    /\ readyState = "OPEN"
    /\ authorized
    /\ \E n \in Calls : Pending(n) /\ promise[n].state = "pending"

\* C19: under the JSON mode and under the Binary mode, decoding what
\* EncodePacket produced for a valid packet yields that packet, also when
\* its strings hold code units above 255.
C19_RoundTrip ==
    (/\ codec.stage = "decoded"
     /\ ~codec.garbled
     /\ options.encryption \in {"JSON", "Binary"}
     /\ codec.packet \in PacketsOver(Units))
        => codec.decoded = Resolved(codec.packet)

\* C20: a codec operation that fails completes with an error result: a
\* custom encryption (decryption) that rejects makes EncodePacket
\* (DecodePacket) reject with EncodeError (DecodeError), as does a built-in
\* mode whose JSON.stringify (JSON.parse) throws.
C20_FailureResignaled ==
    /\ (codec.stage \in {"encoded", "decoded"} /\ ~codec.garbled) =>
            /\ (options.custom /\ ~codec.encrypts) => codec.encoded = Rejected(EncodeError)
            /\ (~options.custom /\ codec.packet = Circular) => codec.encoded = Rejected(EncodeError)
    /\ codec.stage = "decoded" =>
            /\ (options.custom /\ ~codec.decrypts) => codec.decoded = Rejected(DecodeError)
            /\ (~options.custom /\ codec.garbled) => codec.decoded = Rejected(DecodeError)

\* C21: when only one of encryption and decryption is a function, no packet
\* is encoded by the custom function (the built-in codec serves both
\* directions, or the configuration is refused).
C21_MismatchedPairRejected ==
    (isFunction(options.encryption) # isFunction(options.decryption)) =>
        ~(/\ codec.stage # "packet"
          /\ codec.encoded.state = "resolved"
          /\ codec.encoded.value.kind = "sealed")

\* C22: a RESPONSE routed while a call with its id is pending settles that
\* call whatever its data is, and afterwards the timer of the call is not
\* armed and its listener is gone.
C22_ResponseAlwaysSettles ==
    [][\A pkt \in {p \in InPackets : p.type = "RESPONSE"} : \A n \in Calls :
        (/\ Routing(pkt)
         /\ [event |-> AckEvent(pkt.payload.id), fn |-> n] \in Emitter
         /\ promise[n].state = "pending") =>
            /\ promise'[n].state # "pending"
            /\ timeout'[n] # "armed"
            /\ ~\E l \in Emitter' : l.fn = n]_vars

\* C23: a transport-open sets the attempt counter to 0 and emits `connected`;
\* the counter is 0 while the transport is open, so an unexpected close of an
\* open transport with reconnect configured schedules an attempt from a
\* counter of 0, and the first `reconnect` of that cycle carries 1.
C23_OpenResetsCycle ==
    /\ [](readyState = "OPEN" => reconnect_tries = 0)
    /\ [][\A s \in 1..MaxSetups :
            TransportOpen(s) =>
                /\ reconnect_tries' = 0
                /\ emitted' = <<Event("connected", 0)>>]_vars
    /\ [][\A s \in 1..MaxSetups : \A code \in CloseCodes \ {NormalClosure} :
            (/\ TransportClose(s, code)
             /\ sockets[s].readyState = "OPEN"
             /\ options.reconnect /\ options.retries > 0) =>
                /\ reconnectTimers' = reconnectTimers + 1
                /\ reconnect_tries' = 0]_vars
    /\ [][(ReconnectFire /\ reconnect_tries = 0) =>
                /\ emitted' = <<Event("reconnect", 1)>>
                /\ reconnect_tries' = 1]_vars

\* C23 witness: the third transport was set up by an attempt numbered 1, so
\* the second transport had opened and closed in between
C23_Witness ==
    /\ socket = 3
    /\ readyState = "CONNECTING"
    /\ emitted = <<Event("reconnect", 1)>>

\* C24: the timer of every correlated call is armed with the configured
\* responseTimeout, and with 30000 when none is configured.
C24_TimerDelay ==
    \A n \in Calls :
        issued[n].delay = IF "responseTimeout" \in DOMAIN options
                          THEN options.responseTimeout ELSE 30000

\* C25: a step settles a pending call only when it routes a RESPONSE whose
\* id is the ack of that call; routing an EVENT, ACTION or SYNC packet, or a
\* RESPONSE with another id, settles nothing.
C25_OnlyMatchingResponseSettles ==
    [][\A n \in Calls :
        (promise'[n] # promise[n] \/ settles'[n] # settles[n]) =>
            \E pkt \in InPackets :
                /\ pkt.type = "RESPONSE"
                /\ pkt.payload.id = issued[n].ack
                /\ Routing(pkt)]_vars

\* C26: no listener operation of the application (on, once, onAny,
\* removeListener, removeAllListeners) removes the listener of a pending call
\* or settles a call, and routing a RESPONSE calls no application listener.
C26_RegistryIsolated ==
    /\ [][SurfaceOp =>
            /\ Emitter' = Emitter
            /\ promise' = promise
            /\ settles' = settles]_vars
    /\ [][\A pkt \in {p \in InPackets : p.type = "RESPONSE"} :
            Routing(pkt) =>
                Heard(AckEvent(pkt.payload.id), pkt.payload.data) = {}]_vars

\* the transports that are CONNECTING or OPEN
Live == {s \in DOMAIN sockets : sockets[s].readyState \in {"CONNECTING", "OPEN"}}

\* C27: at most one reconnect timer is pending and at most one transport is
\* CONNECTING or OPEN, never both at once; a timer is scheduled only by the
\* close of the current transport, a closed transport stays closed, and a
\* transport is created only by a reconnect timer firing.
C27_OneCycleAtATime ==
    /\ [](/\ reconnectTimers <= 1
          /\ Cardinality(Live) <= 1
          /\ Live \subseteq {socket}
          /\ reconnectTimers = 1 => readyState = "CLOSED")
    /\ [][reconnectTimers' > reconnectTimers =>
            \E code \in CloseCodes : TransportClose(socket, code)]_vars
    /\ [][\A s \in DOMAIN sockets :
            sockets[s].readyState = "CLOSED" => sockets'[s] = sockets[s]]_vars
    /\ [][Len(sockets') # Len(sockets) =>
            /\ ReconnectFire
            /\ Len(sockets') = Len(sockets) + 1]_vars

\* C27 witness: the second transport has closed and the timer of the next
\* attempt is pending
C27_Witness ==
    /\ socket = 2
    /\ readyState = "CLOSED"
    /\ reconnectTimers = 1

====
